---- MODULE Spec2Model ----
(***************************************************************************)
(* CoverageService (src/coverage-system/coverageservice.ts): the coverage  *)
(* cache, its reload-then-render cycles and the subscriptions driving them.*)
(*                                                                         *)
(* The service runs on one JavaScript thread.  Every action below is one   *)
(* job of the event loop: from an entry point, or from the point where an  *)
(* await resumes, up to the next await.  The continuation of              *)
(* `await this.loadCache()` (lines 131-133) and the continuation of        *)
(* `await this.displayForFile()` (lines 80-81) are jobs of their own:      *)
(* whatever else is queued when the awaited promise settles runs first.    *)
(*                                                                         *)
(* The public methods may be called in any state and any number of times.  *)
(* `act` records what the last step did to the collaborators (phases       *)
(* written, calls made, renders issued, errors raised and reported);       *)
(* cacheFrom and lastGood record which reload filled the cache.            *)
(***************************************************************************)
EXTENDS Naturals, Sequences, FiniteSets

\* Bounds of the model.
MaxCycles == 3          \* loadCacheAndRender invocations in one run
MaxPending == 1         \* handleEditorEvents calls in flight at once

\* The workspace: report files matching coverageFileNames, and text editors.
Files == {"a.cov"}
Editors == {"e1"}

Cycles == 1..MaxCycles

\* The values an awaited step may reject with, or a statement throw.
Errors ==
    {"new Error(m)", "undefined", "null", "Object.create(null)",
     "Symbol(s)", "{message: m, stack: Object.create(null)}"}

VARIABLES
    cache,            \* this.cache: the keys of the Map<string, Section>
    coverageWatcher,  \* this.coverageWatcher: "undefined" | "active" | "disposed"
    editorWatcher,    \* this.editorWatcher:   "undefined" | "active" | "disposed"
    leakedWatchers,   \* subscriptions (a file-system watcher and an editor
                      \* listener each) still live but no longer referenced:
                      \* lines 141 and 159 overwrote the fields holding them
    status,           \* the last Status written by updateServiceState
    pc,               \* pc[c]: where invocation c of loadCacheAndRender stands
    local,            \* local[c]: `files` (at "load"), `dataFiles` (at "parse"),
                      \* the mapping passed to renderCoverage (at "render")
    started,          \* number of loadCacheAndRender invocations so far
    watchTasks,       \* the cycles a watchWorkspace call is awaiting (line 79)
    editorRenders,    \* handleEditorEvents calls suspended at line 151
    disk,             \* the report files present in the workspace
    visible,          \* window.visibleTextEditors
    cacheFrom,        \* the cycle whose result this.cache holds, 0 if none
    lastGood,         \* the result of the last loadCache that ended without
                      \* an error (line 118 reached)
    alone,            \* the trigger of the cycle in flight while nothing has
                      \* overlapped it (no other cycle, no change on disk, no
                      \* failure, no dispose), "none" otherwise
    act               \* what the last step did: phases, calls, renders, errors

vars == <<cache, coverageWatcher, editorWatcher, leakedWatchers, status, pc,
          local, started, watchTasks, editorRenders, disk, visible,
          cacheFrom, lastGood, alone, act>>

----------------------------------------------------------------------------
\* Collaborators of the service (FilesLoader, CoverageParser, Renderer).

\* The section a report file parses to: keyed by the source file it covers.
SectionOf(f) == IF f = "a.cov" THEN "src/foo.ts" ELSE "src/bar.ts"

\* FilesLoader.findCoverageFiles: the matching files now on disk.
findCoverageFiles(d) == d

\* FilesLoader.loadDataFiles: the contents of those still readable.
loadDataFiles(files, d) == files \cap d

\* CoverageParser.filesToSections: one section per parsed report.
filesToSections(dataFiles) == {SectionOf(f) : f \in dataFiles}

\* One call of Renderer.renderCoverage(sections, textEditors).
renderCoverage(sections, textEditors, caller) ==
    [mapping |-> sections, editors |-> textEditors, by |-> caller]

----------------------------------------------------------------------------
\* What one step did.

NoAct == [op |-> "env", emit |-> <<>>, calls |-> <<>>,
          renders |-> <<>>, raised |-> 0, warnings |-> 0, telemetry |-> <<>>,
          threw |-> FALSE, completed |-> <<>>]

\* n times the same call, one after the other.
Times(n, x) == [i \in 1..n |-> x]

\* handleError cannot report these: `error.message` (line 165) throws a
\* TypeError on undefined and null, `message.toString()` (line 167) on an
\* object without a prototype.
Unreportable == {"undefined", "null", "Object.create(null)"}

\* handleError shows the warning for these (line 167) and then throws a
\* TypeError while building a log line, before sendEvent (line 170): a
\* symbol cannot be put in the template string of line 168, a stack without
\* a prototype cannot be put in that of line 169.
HalfReported == {"Symbol(s)", "{message: m, stack: Object.create(null)}"}

\* handleError (lines 164-175): one warning, then one telemetry event
\* "error"; or a TypeError before either, or between the two.
handleError(a, error) ==
    IF error \in Unreportable
       THEN [a EXCEPT !.threw = TRUE]
       ELSE IF error \in HalfReported
               THEN [a EXCEPT !.warnings = @ + 1, !.threw = TRUE]
               ELSE [a EXCEPT !.warnings = @ + 1,
                              !.telemetry = Append(@, "error")]

\* updateServiceState (lines 124-127).
updateServiceState(a, state) == [a EXCEPT !.emit = Append(@, state)]

Loading(c) == pc[c] \in {"find", "load", "parse"}
InFlight(c) == pc[c] \in {"find", "load", "parse", "loaded", "caught", "render"}
Disposed == coverageWatcher = "disposed"

\* The live subscriptions: every one of them calls back on an event.
Live == leakedWatchers + (IF coverageWatcher = "active" THEN 1 ELSE 0)

Init ==
    /\ cache = {}
    /\ coverageWatcher = "undefined"
    /\ editorWatcher = "undefined"
    /\ leakedWatchers = 0
    /\ status = "INITIALIZING"
    /\ pc = [c \in Cycles |-> "idle"]
    /\ local = [c \in Cycles |-> {}]
    /\ started = 0
    /\ watchTasks = {}
    /\ editorRenders = 0
    /\ disk \in SUBSET Files
    /\ visible \in SUBSET Editors
    /\ cacheFrom = 0
    /\ lastGood = {}
    /\ alone = "none"
    /\ act = [NoAct EXCEPT !.op = "constructor", !.emit = <<"INITIALIZING">>]

----------------------------------------------------------------------------
\* Entry points.

\* n calls of loadCacheAndRender in a row (one per subscribed callback, one
\* for a display request), each up to its first await: lines 129-130, then
\* loadCache lines 90-104 (LOADING, findCoverageFiles called).
loadCacheAndRender(n, caller) ==
    /\ n >= 1
    /\ started + n <= MaxCycles
    /\ started' = started + n
    /\ pc' = [c \in Cycles |->
                 IF started < c /\ c <= started + n THEN "find" ELSE pc[c]]
    /\ status' = "LOADING"
    /\ act' = [NoAct EXCEPT !.op = caller,
                            !.emit = Times(n, "LOADING"),
                            !.calls = Times(n, "findCoverageFiles")]
    /\ alone' = IF n = 1 /\ \A d \in Cycles : ~InFlight(d) THEN caller
                                                            ELSE "none"
    /\ UNCHANGED <<cache, coverageWatcher, editorWatcher, leakedWatchers,
                   local, editorRenders, visible, cacheFrom, lastGood>>

\* displayForFile (lines 74-76).
displayForFile ==
    /\ loadCacheAndRender(1, "displayForFile")
    /\ UNCHANGED <<watchTasks, disk>>

\* watchWorkspace that subscribes without awaiting the first cycle.
watchWorkspaceSubscribesFirst ==
    /\ started < MaxCycles
    /\ started' = started + 1
    /\ pc' = [pc EXCEPT ![started + 1] = "find"]
    /\ status' = "LOADING"
    /\ coverageWatcher' = "active"
    /\ editorWatcher' = "active"
    /\ leakedWatchers' = Live
    /\ alone' = IF \A d \in Cycles : ~InFlight(d) THEN "watchWorkspace"
                                                   ELSE "none"
    /\ act' = [updateServiceState(NoAct, "LOADING") EXCEPT
                  !.op = "watchWorkspace", !.calls = <<"findCoverageFiles">>]
    /\ UNCHANGED <<cache, local, watchTasks, editorRenders, disk, visible,
                   cacheFrom, lastGood>>

\* watchWorkspace (lines 78-79): the first cycle; the subscriptions follow
\* when it is done (lines 80-81, in watchWorkspaceResumes).
watchWorkspace ==
    /\ loadCacheAndRender(1, "watchWorkspace")
    /\ watchTasks' = watchTasks \cup {started + 1}
    /\ UNCHANGED disk

\* The three callbacks of the file-system watchers (lines 144-146): a report
\* file is changed, created or deleted, and every live watcher calls
\* loadCacheAndRender.
onDidChange(f) ==
    /\ Live > 0
    /\ f \in disk
    /\ loadCacheAndRender(Live, "onDidChange")
    /\ UNCHANGED <<watchTasks, disk>>

onDidCreate(f) ==
    /\ Live > 0
    /\ f \notin disk
    /\ disk' = disk \cup {f}
    /\ loadCacheAndRender(Live, "onDidCreate")
    /\ UNCHANGED watchTasks

onDidDelete(f) ==
    /\ Live > 0
    /\ f \in disk
    /\ disk' = disk \ {f}
    /\ loadCacheAndRender(Live, "onDidDelete")
    /\ UNCHANGED watchTasks

\* A report file appears or disappears while no watcher is listening.
DiskChange(f) ==
    /\ Live = 0
    /\ disk' = IF f \in disk THEN disk \ {f} ELSE disk \cup {f}
    /\ act' = NoAct
    /\ alone' = "none"
    /\ UNCHANGED <<cache, coverageWatcher, editorWatcher, leakedWatchers,
                   status, pc, local, started, watchTasks, editorRenders,
                   visible, cacheFrom, lastGood>>

----------------------------------------------------------------------------
\* loadCache after its awaits.

\* Line 104 resolves: `files`, then loadDataFiles is called (line 108).
findResolved(c) ==
    /\ pc[c] = "find"
    /\ local' = [local EXCEPT ![c] = findCoverageFiles(disk)]
    /\ pc' = [pc EXCEPT ![c] = "load"]
    /\ act' = [NoAct EXCEPT !.op = "loadCache",
                            !.calls = <<"loadDataFiles">>]
    /\ UNCHANGED <<cache, coverageWatcher, editorWatcher, leakedWatchers,
                   status, started, watchTasks, editorRenders, disk,
                   visible, cacheFrom, lastGood, alone>>

\* Line 108 resolves: `dataFiles`, then filesToSections is called (line 112).
loadResolved(c) ==
    /\ pc[c] = "load"
    /\ local' = [local EXCEPT ![c] = loadDataFiles(local[c], disk)]
    /\ pc' = [pc EXCEPT ![c] = "parse"]
    /\ act' = [NoAct EXCEPT !.op = "loadCache",
                            !.calls = <<"filesToSections">>]
    /\ UNCHANGED <<cache, coverageWatcher, editorWatcher, leakedWatchers,
                   status, started, watchTasks, editorRenders, disk,
                   visible, cacheFrom, lastGood, alone>>

\* parseResolved that adds the parsed sections to the cache instead of
\* replacing it.
parseResolvedMerges(c) ==
    /\ pc[c] = "parse"
    /\ cache' = cache \cup filesToSections(local[c])
    /\ cacheFrom' = c
    /\ lastGood' = cache'
    /\ local' = [local EXCEPT ![c] = {}]
    /\ pc' = [pc EXCEPT ![c] = "loaded"]
    /\ status' = "READY"
    /\ act' = [updateServiceState(NoAct, "READY") EXCEPT !.op = "loadCache"]
    /\ UNCHANGED <<coverageWatcher, editorWatcher, leakedWatchers, started,
                   watchTasks, editorRenders, disk, visible, alone>>

\* Line 112 resolves: the cache is replaced (line 116), READY (line 118), and
\* loadCache returns.
parseResolved(c) ==
    /\ pc[c] = "parse"
    /\ cache' = filesToSections(local[c])
    /\ cacheFrom' = c
    /\ lastGood' = cache'
    /\ local' = [local EXCEPT ![c] = {}]
    /\ pc' = [pc EXCEPT ![c] = "loaded"]
    /\ status' = "READY"
    /\ act' = [updateServiceState(NoAct, "READY") EXCEPT !.op = "loadCache"]
    /\ UNCHANGED <<coverageWatcher, editorWatcher, leakedWatchers, started,
                   watchTasks, editorRenders, disk, visible, alone>>

\* Line 112 resolves and the cache is replaced (line 116), but printing the
\* sections throws (line 117: JSON.stringify or appendLine): line 118 does not
\* run and the catch block calls handleError (lines 119-121).
printDataCoverageThrows(c, error) ==
    /\ pc[c] = "parse"
    /\ cache' = filesToSections(local[c])
    /\ cacheFrom' = c
    /\ local' = [local EXCEPT ![c] = {}]
    /\ act' = [handleError(NoAct, error) EXCEPT
                  !.op = "printDataCoverage", !.raised = 1]
    /\ pc' = [pc EXCEPT ![c] = IF act'.threw THEN "done" ELSE "caught"]
    /\ watchTasks' = IF act'.threw THEN watchTasks \ {c} ELSE watchTasks
    /\ alone' = "none"
    /\ UNCHANGED <<coverageWatcher, editorWatcher, leakedWatchers, status,
                   started, editorRenders, disk, visible, lastGood>>

\* loadCacheCatch with a catch block that also resets the cache.
loadCacheCatchResets(c, error) ==
    /\ Loading(c)
    /\ cache' = {}
    /\ local' = [local EXCEPT ![c] = {}]
    /\ act' = [handleError(NoAct, error) EXCEPT
                  !.op = "loadCache", !.raised = 1]
    /\ pc' = [pc EXCEPT ![c] = IF act'.threw THEN "done" ELSE "caught"]
    /\ watchTasks' = IF act'.threw THEN watchTasks \ {c} ELSE watchTasks
    /\ alone' = "none"
    /\ UNCHANGED <<coverageWatcher, editorWatcher, leakedWatchers, status,
                   started, editorRenders, disk, visible, cacheFrom, lastGood>>

\* One of the awaits of lines 104, 108, 112 rejects with `error`: the catch
\* block calls handleError (lines 119-121) and loadCache returns.  When
\* handleError itself throws, loadCache rejects, and so does
\* loadCacheAndRender at line 130: the cycle ends there.
loadCacheCatch(c, error) ==
    /\ Loading(c)
    /\ local' = [local EXCEPT ![c] = {}]
    /\ act' = [handleError(NoAct, error) EXCEPT
                  !.op = "loadCache", !.raised = 1]
    /\ pc' = [pc EXCEPT ![c] = IF act'.threw THEN "done" ELSE "caught"]
    /\ watchTasks' = IF act'.threw THEN watchTasks \ {c} ELSE watchTasks
    /\ alone' = "none"
    /\ UNCHANGED <<cache, coverageWatcher, editorWatcher, leakedWatchers,
                   status, started, editorRenders, disk, visible, cacheFrom,
                   lastGood>>

----------------------------------------------------------------------------
\* loadCacheAndRender and watchWorkspace after their awaits.

\* `await this.loadCache()` resumes (line 130), after a reload that stored
\* its result ("loaded") or one that reported an error ("caught") alike:
\* RENDERING, renderCoverage of the cache as it is now (lines 131-133).
loadCacheAndRenderResumes(c) ==
    /\ pc[c] \in {"loaded", "caught"}
    /\ pc' = [pc EXCEPT ![c] = "render"]
    /\ local' = [local EXCEPT ![c] = cache]
    /\ status' = "RENDERING"
    /\ act' = [updateServiceState(NoAct, "RENDERING") EXCEPT
                  !.op = "loadCacheAndRender",
                  !.renders = <<renderCoverage(cache, visible,
                                               "loadCacheAndRender")>>]
    /\ UNCHANGED <<cache, coverageWatcher, editorWatcher, leakedWatchers,
                   started, watchTasks, editorRenders, disk, visible,
                   cacheFrom, lastGood, alone>>

\* Line 133 resolves: READY (line 134), and loadCacheAndRender returns.  A
\* watchWorkspace awaiting the cycle resumes in a later job.
renderResolved(c) ==
    /\ pc[c] = "render"
    /\ pc' = [pc EXCEPT ![c] = IF c \in watchTasks THEN "subscribe" ELSE "done"]
    /\ status' = "READY"
    /\ local' = [local EXCEPT ![c] = {}]
    /\ act' = [updateServiceState(NoAct, "READY") EXCEPT
                  !.op = "loadCacheAndRender", !.completed = <<local[c]>>]
    /\ alone' = "none"
    /\ UNCHANGED <<cache, coverageWatcher, editorWatcher, leakedWatchers,
                   started, watchTasks, editorRenders, disk, visible,
                   cacheFrom, lastGood>>

\* Line 133 rejects: nothing catches it, the promise of loadCacheAndRender
\* rejects and line 134 does not run; nor do lines 80-81 when watchWorkspace
\* was awaiting the cycle.
renderRejected(c) ==
    /\ pc[c] = "render"
    /\ pc' = [pc EXCEPT ![c] = "done"]
    /\ watchTasks' = watchTasks \ {c}
    /\ local' = [local EXCEPT ![c] = {}]
    /\ act' = [NoAct EXCEPT !.op = "loadCacheAndRender", !.raised = 1]
    /\ alone' = "none"
    /\ UNCHANGED <<cache, coverageWatcher, editorWatcher, leakedWatchers,
                   status, started, editorRenders, disk, visible, cacheFrom,
                   lastGood>>

\* `await this.displayForFile()` resumes (line 79): listenToFileSystem and
\* listenToEditorEvents (lines 80-81) create a watcher and an editor listener
\* and store them in the two fields.  What the fields held is not released:
\* subscriptions still live stay live.
watchWorkspaceResumes(c) ==
    /\ pc[c] = "subscribe"
    /\ pc' = [pc EXCEPT ![c] = "done"]
    /\ watchTasks' = watchTasks \ {c}
    /\ coverageWatcher' = "active"
    /\ editorWatcher' = "active"
    /\ leakedWatchers' = Live
    /\ act' = [NoAct EXCEPT
                  !.op = "watchWorkspace",
                  !.calls = <<"createFileSystemWatcher",
                              "onDidChangeVisibleTextEditors">>]
    /\ UNCHANGED <<cache, status, local, started, editorRenders, disk,
                   visible, cacheFrom, lastGood, alone>>

----------------------------------------------------------------------------
\* Editors, clearing, disposal.

\* handleEditorEvents that reloads instead of rendering the cache.
handleEditorEventsReloads(textEditors) ==
    /\ Live > 0
    /\ started < MaxCycles
    /\ visible' = textEditors
    /\ started' = started + 1
    /\ pc' = [pc EXCEPT ![started + 1] = "find"]
    /\ status' = "LOADING"
    /\ act' = [updateServiceState(NoAct, "LOADING") EXCEPT
                  !.op = "handleEditorEvents",
                  !.calls = <<"findCoverageFiles">>]
    /\ alone' = "none"
    /\ UNCHANGED <<cache, coverageWatcher, editorWatcher, leakedWatchers,
                   local, watchTasks, editorRenders, disk, cacheFrom,
                   lastGood>>

\* The visible editors change and every live subscription of line 159 calls
\* handleEditorEvents with the new list (lines 149-154).
handleEditorEvents(textEditors) ==
    /\ Live > 0
    /\ editorRenders + Live <= MaxPending
    /\ visible' = textEditors
    /\ editorRenders' = editorRenders + Live
    /\ status' = "RENDERING"
    /\ act' = [NoAct EXCEPT
                  !.op = "handleEditorEvents",
                  !.emit = Times(Live, "RENDERING"),
                  !.renders = Times(Live, renderCoverage(cache, textEditors,
                                                         "handleEditorEvents"))]
    /\ UNCHANGED <<cache, coverageWatcher, editorWatcher, leakedWatchers, pc,
                   local, started, watchTasks, disk, cacheFrom, lastGood,
                   alone>>

\* The visible editors change while nothing is subscribed.
VisibleChange(textEditors) ==
    /\ Live = 0
    /\ textEditors # visible
    /\ visible' = textEditors
    /\ act' = NoAct
    /\ UNCHANGED <<cache, coverageWatcher, editorWatcher, leakedWatchers,
                   status, pc, local, started, watchTasks, editorRenders,
                   disk, cacheFrom, lastGood, alone>>

\* Line 151 resolves: READY (line 155).
editorRenderResolved ==
    /\ editorRenders > 0
    /\ editorRenders' = editorRenders - 1
    /\ status' = "READY"
    /\ act' = [updateServiceState(NoAct, "READY") EXCEPT
                  !.op = "handleEditorEvents"]
    /\ UNCHANGED <<cache, coverageWatcher, editorWatcher, leakedWatchers, pc,
                   local, started, watchTasks, disk, visible, cacheFrom,
                   lastGood, alone>>

\* Line 151 rejects: nothing catches it, line 155 does not run.
editorRenderRejected ==
    /\ editorRenders > 0
    /\ editorRenders' = editorRenders - 1
    /\ act' = [NoAct EXCEPT !.op = "handleEditorEvents", !.raised = 1]
    /\ UNCHANGED <<cache, coverageWatcher, editorWatcher, leakedWatchers,
                   status, pc, local, started, watchTasks, disk, visible,
                   cacheFrom, lastGood, alone>>

\* removeCoverageForCurrentEditor that empties the cache and renders it, as
\* dispose does.
removeCoverageResetsCache ==
    /\ cache' = {}
    /\ act' = [NoAct EXCEPT
                  !.op = "removeCoverageForCurrentEditor",
                  !.renders = <<renderCoverage(cache', visible,
                                   "removeCoverageForCurrentEditor")>>]
    /\ UNCHANGED <<coverageWatcher, editorWatcher, leakedWatchers, status, pc,
                   local, started, watchTasks, editorRenders, disk, visible,
                   cacheFrom, lastGood, alone>>

\* removeCoverageForCurrentEditor (lines 84-87).
removeCoverageForCurrentEditor ==
    /\ act' = [NoAct EXCEPT
                  !.op = "removeCoverageForCurrentEditor",
                  !.renders = <<renderCoverage({}, visible,
                                   "removeCoverageForCurrentEditor")>>]
    /\ UNCHANGED <<cache, coverageWatcher, editorWatcher, leakedWatchers,
                   status, pc, local, started, watchTasks, editorRenders,
                   disk, visible, cacheFrom, lastGood, alone>>

\* dispose (lines 66-72) once the two fields hold subscriptions, live or
\* already disposed: they are released, the cache is reset and rendered.
dispose ==
    /\ coverageWatcher # "undefined"
    /\ coverageWatcher' = "disposed"
    /\ editorWatcher' = "disposed"
    /\ cache' = {}
    /\ cacheFrom' = 0
    /\ act' = [NoAct EXCEPT !.op = "dispose",
                            !.renders = <<renderCoverage({}, visible, "dispose")>>]
    /\ alone' = "none"
    /\ UNCHANGED <<leakedWatchers, status, pc, local, started, watchTasks,
                   editorRenders, disk, visible, lastGood>>

\* dispose before listenToFileSystem has run: this.coverageWatcher is
\* undefined and line 67 throws a TypeError; lines 68-71 do not run.
disposeThrows ==
    /\ coverageWatcher = "undefined"
    /\ act' = [NoAct EXCEPT !.op = "dispose", !.threw = TRUE]
    /\ UNCHANGED <<cache, coverageWatcher, editorWatcher, leakedWatchers,
                   status, pc, local, started, watchTasks, editorRenders,
                   disk, visible, cacheFrom, lastGood, alone>>

----------------------------------------------------------------------------
Next ==
    \/ displayForFile
    \/ watchWorkspace
    \/ \E f \in Files : onDidChange(f)
    \/ \E f \in Files : onDidCreate(f)
    \/ \E f \in Files : onDidDelete(f)
    \/ \E f \in Files : DiskChange(f)
    \/ \E c \in Cycles : findResolved(c)
    \/ \E c \in Cycles : loadResolved(c)
    \/ \E c \in Cycles : parseResolved(c)
    \/ \E c \in Cycles, error \in Errors : printDataCoverageThrows(c, error)
    \/ \E c \in Cycles, error \in Errors : loadCacheCatch(c, error)
    \/ \E c \in Cycles : loadCacheAndRenderResumes(c)
    \/ \E c \in Cycles : renderResolved(c)
    \/ \E c \in Cycles : renderRejected(c)
    \/ \E c \in Cycles : watchWorkspaceResumes(c)
    \/ \E e \in SUBSET Editors : handleEditorEvents(e)
    \/ \E e \in SUBSET Editors : VisibleChange(e)
    \/ editorRenderResolved
    \/ editorRenderRejected
    \/ removeCoverageForCurrentEditor
    \/ dispose
    \/ disposeThrows

Spec == Init /\ [][Next]_vars

\* The runs in which every awaited step resolves, nothing throws and neither
\* a clear nor a dispose is requested: the event loop runs every job.
NextResolving ==
    \/ displayForFile
    \/ watchWorkspace
    \/ \E f \in Files : onDidChange(f)
    \/ \E f \in Files : onDidCreate(f)
    \/ \E f \in Files : onDidDelete(f)
    \/ \E f \in Files : DiskChange(f)
    \/ \E c \in Cycles : findResolved(c)
    \/ \E c \in Cycles : loadResolved(c)
    \/ \E c \in Cycles : parseResolved(c)
    \/ \E c \in Cycles : loadCacheAndRenderResumes(c)
    \/ \E c \in Cycles : renderResolved(c)
    \/ \E c \in Cycles : watchWorkspaceResumes(c)
    \/ \E e \in SUBSET Editors : handleEditorEvents(e)
    \/ \E e \in SUBSET Editors : VisibleChange(e)
    \/ editorRenderResolved

Settles(c) ==
    \/ findResolved(c)
    \/ loadResolved(c)
    \/ parseResolved(c)
    \/ loadCacheAndRenderResumes(c)
    \/ renderResolved(c)
    \/ watchWorkspaceResumes(c)

LiveSpec ==
    /\ Init
    /\ [][NextResolving]_vars
    /\ \A c \in Cycles : WF_vars(Settles(c))
    /\ WF_vars(editorRenderResolved)

----------------------------------------------------------------------------
\* Properties.

CycleRenders ==
    {i \in DOMAIN act.renders :
        act.renders[i].by \in {"loadCacheAndRender", "handleEditorEvents"}}

\* A cycle is over once its render has settled (or its reload has rejected).
Finished(c) == pc[c] \in {"subscribe", "done"}

\* C1: at most one loadCache is between LOADING and its end (the cache
\* assignment or the catch block) at any instant.
AtMostOneReloadInFlight == Cardinality({c \in Cycles : Loading(c)}) <= 1

\* C2: reload-then-render cycles never interleave: while one cycle is loading
\* or rendering, no other cycle has started and not yet finished.
CyclesNeverInterleave ==
    \A c, d \in Cycles : (c < d /\ InFlight(d)) => Finished(c)

\* C3: once the result of a later-started reload is in the cache, the
\* completion of an earlier-started reload does not overwrite it.
NewerReloadNotClobbered ==
    [][(cacheFrom' # 0 /\ cacheFrom' < cacheFrom) => cache' = cache]_vars

\* C4: a reload whose discovery, load or parse step throws leaves the cache
\* as it was just before the failing step.
LoadCacheFailed(c) ==
    /\ Loading(c)
    /\ pc'[c] \in {"caught", "done"}
    /\ act'.op = "loadCache"
    /\ act'.raised = 1

FailedReloadKeepsSnapshot ==
    [][(\E c \in Cycles : LoadCacheFailed(c)) =>
           (cache' = cache /\ cacheFrom' = cacheFrom)]_vars

\* C4 witness: a reload has just failed and been reported while the cache
\* holds a section.
FailedReloadWithSections ==
    /\ act.op = "loadCache"
    /\ act.raised = 1
    /\ act.warnings = 1
    /\ \E c \in Cycles : pc[c] = "caught"
    /\ cache # {}

\* C5: every mapping a cycle or a visible-editors change passes to
\* renderCoverage is the result of the most recently completed successful
\* reload (the empty initial mapping if there is none).
RenderedMappingIsLastReload ==
    \A i \in CycleRenders : act.renders[i].mapping = lastGood

\* C6: after dispose the cache stays empty and no render is issued with a
\* non-empty mapping.
AfterDisposeStaysEmpty ==
    Disposed =>
        /\ cache = {}
        /\ \A i \in DOMAIN act.renders : act.renders[i].mapping = {}

\* C7: a call of dispose issues exactly one render, with an empty mapping,
\* and no loadCache starts after disposal.
DisposeClearsOnceAndStops ==
    [][/\ act'.op = "dispose" =>
             /\ Len(act'.renders) = 1
             /\ act'.renders[1].mapping = {}
       /\ Disposed => started' = started]_vars

\* C8: a visible-editors change starts no reload, calls no discovery, load
\* or parse, leaves the cache unchanged, and each subscribed handler issues
\* one render of the current cache against the editor list delivered with
\* the event.
EditorEventDelivered ==
    act'.op = "handleEditorEvents" /\ editorRenders' >= editorRenders

EditorEventOnlyRenders ==
    [][EditorEventDelivered =>
           /\ cache' = cache
           /\ pc' = pc
           /\ started' = started
           /\ act'.calls = <<>>
           /\ act'.renders = Times(Live, renderCoverage(cache, visible',
                                                        "handleEditorEvents"))
           /\ Live >= 1]_vars

\* C8 witness: an editor event has been handled while a reload was in
\* flight and the cache held a section.
EditorEventDuringReload ==
    /\ act.op = "handleEditorEvents"
    /\ Len(act.renders) = 1
    /\ act.renders[1].mapping # {}
    /\ act.renders[1].editors = visible
    /\ \E c \in Cycles : Loading(c)

\* C9: a clear request renders the empty mapping against the visible
\* editors and leaves the cache unchanged, so that a visible-editors change
\* right after it renders the cached sections again.
ClearKeepsSnapshot ==
    [][/\ act'.op = "removeCoverageForCurrentEditor" =>
             /\ cache' = cache
             /\ act'.calls = <<>>
             /\ act'.renders = <<renderCoverage({}, visible,
                                    "removeCoverageForCurrentEditor")>>
       /\ (act.op = "removeCoverageForCurrentEditor" /\ EditorEventDelivered)
             => /\ Len(act'.renders) >= 1
                /\ \A i \in DOMAIN act'.renders :
                       act'.renders[i].mapping = cache]_vars

\* C9 witness: a clear request has been served while the cache held a
\* section and a reload was in flight.
ClearedWithSectionsCached ==
    /\ act.op = "removeCoverageForCurrentEditor"
    /\ act.renders = <<renderCoverage({}, visible,
                          "removeCoverageForCurrentEditor")>>
    /\ cache # {}
    /\ \E c \in Cycles : Loading(c)

\* C10: every failure raised during discovery, load, parse or render reaches
\* handleError exactly once: one warning and one telemetry event "error".
EveryFailureHandledOnce ==
    /\ act.warnings = act.raised
    /\ act.telemetry = [i \in 1..act.raised |-> "error"]

\* C11: when a reload fails, the phase written right after the failure is
\* ERROR, and READY is not written again by that cycle.
FailedReloadEmitsError ==
    (act.op = "loadCache" /\ act.raised = 1) =>
        /\ Len(act.emit) >= 1
        /\ act.emit[1] = "ERROR"
        /\ status = "ERROR"

\* C12: triggers arriving while a cycle is in flight are coalesced: however
\* many arrive, at most one more reload is started on their behalf.
TriggersCoalesced ==
    \A c \in Cycles : InFlight(c) => started <= c + 1

\* C13: once every awaited step has settled and nothing is in flight (no
\* dispose having been requested), the render that completed last was given
\* the current snapshot, the result of the last completed reload.
Quiescent == (\A c \in Cycles : ~InFlight(c)) /\ editorRenders = 0

LastRenderReflectsSnapshot ==
    (Quiescent /\ ~Disposed /\ act.completed # <<>>) =>
        act.completed[1] = cache

\* C14: display requests and the three watcher callbacks all start the same
\* full cycle (one per subscribed callback); a cycle that nothing overlaps
\* and whose reload succeeds replaces the snapshot by the parse of the report
\* files on disk and renders that mapping against the visible editors,
\* without an error: an empty mapping when the only report file has been
\* deleted.
Triggers ==
    {"displayForFile", "watchWorkspace", "onDidChange", "onDidCreate",
     "onDidDelete"}

ReloadSucceeded(c) == pc[c] = "parse" /\ pc'[c] = "loaded"

\* A trigger is delivered: an entry point runs, not the continuation of
\* watchWorkspace.
TriggerDelivered ==
    /\ act'.op \in Triggers
    /\ ~\E c \in Cycles : pc[c] = "subscribe" /\ pc'[c] = "done"

FullCycleOnEveryTrigger ==
    [][/\ TriggerDelivered =>
             /\ started' > started
             /\ \A c \in (started + 1)..started' : pc'[c] = "find"
             /\ act'.emit = Times(started' - started, "LOADING")
             /\ act'.calls = Times(started' - started, "findCoverageFiles")
             /\ act'.op \in {"displayForFile", "watchWorkspace"}
                    => started' = started + 1
       /\ \A c \in Cycles :
             /\ (ReloadSucceeded(c) /\ alone # "none") =>
                    /\ cache' = filesToSections(disk)
                    /\ act'.warnings = 0
                    /\ act'.raised = 0
             /\ (pc[c] = "loaded" /\ pc'[c] = "render" /\ alone # "none") =>
                    act'.renders =
                        <<renderCoverage(filesToSections(disk), visible,
                                         "loadCacheAndRender")>>]_vars

\* C14 witness: the cycle started by the deletion of the only report file
\* has stored and rendered an empty mapping, with no error.
DeletionRendersEmpty ==
    /\ alone = "onDidDelete"
    /\ disk = {}
    /\ \E c \in Cycles : pc[c] = "render"
    /\ cache = {}
    /\ act.op = "loadCacheAndRender"
    /\ Len(act.renders) = 1
    /\ act.renders[1].mapping = {}
    /\ act.warnings = 0

\* C15: consecutive phases written by updateServiceState only follow the
\* edges of the phase machine, and INITIALIZING is written at construction
\* only.
AllowedEdges ==
    {<<"INITIALIZING", "READY">>, <<"READY", "LOADING">>,
     <<"LOADING", "READY">>, <<"LOADING", "RENDERING">>,
     <<"RENDERING", "READY">>, <<"LOADING", "ERROR">>,
     <<"RENDERING", "ERROR">>, <<"ERROR", "READY">>}

PhasesFollowAllowedEdges ==
    [][LET seq == <<status>> \o act'.emit
       IN  \A i \in 1..Len(seq) - 1 :
               /\ <<seq[i], seq[i + 1]>> \in AllowedEdges
               /\ seq[i + 1] # "INITIALIZING"]_vars

\* C16: a cycle whose reload fails aborts: after handleError has run, the
\* cycle issues no render.
FailedCycleIssuesNoRender ==
    [][\A c \in Cycles :
           (pc[c] = "caught" /\ pc'[c] # "caught") =>
               act'.renders = <<>>]_vars

\* C17: while a reload is pending, no file-system notification starts
\* another loadCache.
WatcherCallbacks == {"onDidChange", "onDidCreate", "onDidDelete"}

PendingReloadBlocksCycles ==
    [][(\E c \in Cycles : Loading(c)) =>
           act'.op \notin WatcherCallbacks]_vars

\* C18: dispose never throws; in every state it resets the cache to empty
\* and issues the clearing render.
DisposeNeverThrows ==
    act.op = "dispose" =>
        /\ ~act.threw
        /\ cache = {}
        /\ act.renders = <<renderCoverage({}, visible, "dispose")>>

\* C19: a call of watchWorkspace registers its two subscriptions together,
\* in a step of its own that follows the resolution of the render of the
\* cycle it awaits, and at no other time: while that cycle is in flight, or
\* after its reload or render has rejected, the call registers nothing, and
\* no watcher callback or editor event runs before a subscription exists.
Subscribed(w) == w = "active"

Registers ==
    /\ Subscribed(coverageWatcher')
    /\ ~Subscribed(coverageWatcher) \/ leakedWatchers' > leakedWatchers

SubscribesAfterFirstCycle ==
    [][/\ Registers =>
             \E c \in watchTasks :
                 /\ pc[c] = "subscribe"
                 /\ pc'[c] = "done"
                 /\ Live' = Live + 1
       /\ \A c \in Cycles :
             (pc'[c] = "subscribe" /\ pc[c] # "subscribe") =>
                 /\ c \in watchTasks
                 /\ pc[c] = "render"
                 /\ act'.op = "loadCacheAndRender"
                 /\ act'.emit = <<"READY">>
                 /\ act'.raised = 0
       /\ Subscribed(editorWatcher') <=> Subscribed(coverageWatcher')
       /\ (act'.op \in WatcherCallbacks \/ EditorEventDelivered) =>
             /\ Live >= 1
             /\ \E c \in Cycles : pc[c] = "done"]_vars

\* C19 witness: the subscriptions have just been registered, in a step after
\* the resolution of the first cycle's render.
SubscribedAfterRender ==
    /\ Subscribed(coverageWatcher)
    /\ Subscribed(editorWatcher)
    /\ Live = 1
    /\ watchTasks = {}
    /\ act.op = "watchWorkspace"
    /\ act.calls = <<"createFileSystemWatcher", "onDidChangeVisibleTextEditors">>
    /\ pc[1] = "done"
    /\ started = 1

\* C20: whenever the last phase written is READY, no loadCache is suspended
\* between LOADING and its cache assignment, and no render issued by a cycle
\* or by a visible-editors change is awaiting its completion.
ReadyMeansIdle ==
    status = "READY" =>
        /\ \A c \in Cycles : ~Loading(c) /\ pc[c] # "render"
        /\ editorRenders = 0

====
